---- MODULE Spec2Model ----
(***************************************************************************)
(* The git proxy endpoint of static-cms-proxy-server: the joi validator,   *)
(* the gate (async-mutex withTimeout), the branch guard runOnBranch and    *)
(* the action dispatcher of localGitMiddleware, with the filesystem and    *)
(* git calls as steps that return or fail.                                 *)
(***************************************************************************)
EXTENDS Integers, Sequences, FiniteSets, TLC

\* Number of requests sent to POST /api/v1.
NumReqs == 2

\* withTimeout(new Mutex(), 3000, ...): the acquisition timeout, in seconds.
AcquireTimeout == 3

Reqs == 1..NumReqs

\* Longest path value tried on the validator, in segments.
MaxSegs == 2

\* Most data files a persistEntry carries.
MaxFiles == 2

\* Most entries of the media folder.
MaxEntries == 3

\* Most entries of a directory that is listed, and the greatest depth asked
\* for.
MaxListed == 2
MaxDepth == 2

\* Most data files a persistEntry carries when it is sent along with other
\* requests.
MaxFilesShared == 1

\* joi: allowedActions
allowedActions ==
  {"info", "entriesByFolder", "entriesByFiles", "getEntry", "persistEntry", "getMedia",
   "getMediaFile", "persistMedia", "deleteFile", "deleteFiles", "getDeployPreview"}

\* The cases of the dispatcher's switch that read through runOnBranch.
ReadActions == {"entriesByFolder", "entriesByFiles", "getEntry", "getMedia", "getMediaFile"}

\* The cases of the dispatcher's switch that delete and commit.
DeleteActions == {"deleteFile", "deleteFiles"}

\* Actions a client sends: the allowed ones and one the server does not know.
ActionsSent == allowedActions \cup {"frobnicate"}

\* git.branchLocal().all of the repository, and the branch names clients send.
LocalBranches == {"main", "draft"}
NoBranch == "undefined"
BranchesSent == LocalBranches \cup {"ghost", NoBranch}

\* git.branchLocal().current when the server starts.
InitBranch == "main"

\* Error messages.
TimeoutMsg == "Request timed out"
GitMsg == "git command failed"
FsMsg == "filesystem call failed"
UnknownErrorMsg == "Unknown error"
UnknownActionMsg == "Unknown action"
BranchMissingMsg == "Default branch doesn't exist"
ActionInvalidMsg == "\"action\" must be one of [allowedActions]"
BranchRequiredMsg == "\"params.branch\" is required"
ParamsRequiredMsg == "\"params\" is required"
ParamsForbiddenMsg == "\"params\" is not allowed"
FieldRequiredMsg == "\"params.field\" is required"
ParamUnknownMsg == "\"params.unknown\" is not allowed"
KeyUnknownMsg == "\"unknown\" is not allowed"
TypeErrorMsg == "Cannot destructure property 'branch' of 'body.params' as it is undefined"
NoReplaceMsg == "file.replace is not a function"
NoError == "none"

VARIABLES
  pc,        \* per request: the await the handler is suspended at
  body,      \* per request: req.body
  resp,      \* per request: the responses sent, in order
  release,   \* per request: the handler's local `release` is set
  saved,     \* per request: runOnBranch's currentBranch
  thrown,    \* per request: message of the exception in flight or caught
  step,      \* per request: position in the operation run by runOnBranch
  detached,  \* per request: filesystem calls started and not awaited
  holder,    \* the mutex: requests whose ticket holds the lock
  queue,     \* the mutex: waiters, oldest first
  stale,     \* the mutex: waiters whose acquire timed out (isTimeout)
  waited,    \* per request: seconds spent waiting in acquire
  current,   \* the repository's current branch
  running,   \* the server process is alive
  dirty,     \* the working tree: changes made to it and not committed
  staged,    \* the index: changes added and not committed
  events,    \* history: every git and filesystem call made, with the branch
             \* current and the gate's state when it ran
  field,     \* the validator alone: the path-typed field being validated
  value,     \* the validator alone: the value supplied for it
  verdict,   \* the validator alone: the message reported, or "none"
  checked,   \* the validator alone: the body handed to schema.validate
  details,   \* the validator alone: error.details of that validation
  listing,   \* getMedia alone: what readdir of the media folder returns
  media,     \* getMedia alone: the response
  disk,      \* listRepoFiles alone: what readdir returns for each directory
  query,     \* listRepoFiles alone: the extension and depth asked for
  fsItems,   \* listRepoFiles alone: the items returned
  before,    \* move alone: the files and directories before the call
  call,      \* move alone: from, to, and whether readdir fails
  after      \* move alone: the files and directories after the call, and
             \* whether it threw

\* The state of the endpoint and the state of a validator run on its own.
gvars == <<pc, body, resp, release, saved, thrown, step, detached, holder, queue, stale,
           waited, current, running, dirty, staged, events>>
pvars == <<field, value, verdict>>
jvars == <<checked, details>>
mvars == <<listing, media>>
lvars == <<disk, query, fsItems>>
dvars == <<before, call, after>>
vars == <<gvars, pvars, jvars, mvars, lvars, dvars>>

\* For each data file of a persistEntry, whether it carries newPath.
NewPathChoices == UNION {[1..n -> BOOLEAN] : n \in 0..MaxFiles}

\* req.body as far as the validator and the dispatcher read it: whether
\* params is there, params.branch, the data files' newPath, whether the
\* fields the action requires besides branch are all there, and whether
\* params or the body carry a key the schema does not name.
AllBodies ==
  { b \in [action : ActionsSent, params : BOOLEAN, branch : BranchesSent,
            newPaths : NewPathChoices, complete : BOOLEAN, extraParam : BOOLEAN,
            extraTop : BOOLEAN] :
      /\ ~b.params => b.branch = NoBranch /\ ~b.extraParam /\ ~b.complete
      /\ (b.action # "persistEntry" \/ ~b.params \/ ~b.complete) => b.newPaths = <<>> }

\* Bodies that are complete and carry no unknown keys.
PlainBodies == { b \in AllBodies : (b.params => b.complete) /\ ~b.extraParam /\ ~b.extraTop }

\* The bodies sent to the endpoint by clients competing for the gate.
Bodies == { b \in PlainBodies : Len(b.newPaths) <= MaxFilesShared }

\* The persistEntry bodies a single client sends.
EntryBodies == { b \in PlainBodies : b.action = "persistEntry" /\ b.params }

NoBody ==
  [action |-> "none", params |-> FALSE, branch |-> NoBranch, newPaths |-> <<>>,
   complete |-> FALSE, extraParam |-> FALSE, extraTop |-> FALSE]

\* readdir of a directory: it fails, or it returns entries.
NoEntries == [failed |-> FALSE, entries |-> <<>>]

\* No listing asked for yet.
NoQuery == [extension |-> "", depth |-> 0, asked |-> FALSE]

\* A working tree: the paths of its files and of its directories.
NoTree == [files |-> {}, dirs |-> {}]

\* No move called yet.
NoCall == [from |-> <<>>, to |-> <<>>, unreadable |-> FALSE]

\* No response yet.
NoMedia == [status |-> 0, body |-> <<>>, error |-> ""]

Init ==
  /\ pc = [r \in Reqs |-> "idle"]
  /\ body = [r \in Reqs |-> NoBody]
  /\ resp = [r \in Reqs |-> <<>>]
  /\ release = [r \in Reqs |-> FALSE]
  /\ saved = [r \in Reqs |-> NoBranch]
  /\ thrown = [r \in Reqs |-> NoError]
  /\ step = [r \in Reqs |-> 0]
  /\ detached = [r \in Reqs |-> {}]
  /\ holder = {}
  /\ queue = <<>>
  /\ stale = {}
  /\ waited = [r \in Reqs |-> 0]
  /\ current = InitBranch
  /\ running = TRUE
  /\ dirty = {}
  /\ staged = {}
  /\ events = {}
  /\ field = "none"
  /\ value = <<>>
  /\ verdict = "none"
  /\ checked = NoBody
  /\ details = <<>>
  /\ listing = [entries |-> <<>>, failed |-> FALSE]
  /\ media = NoMedia
  /\ disk = [top |-> NoEntries, sub |-> NoEntries]
  /\ query = NoQuery
  /\ fsItems = <<>>
  /\ before = NoTree
  /\ call = NoCall
  /\ after = [tree |-> NoTree, threw |-> FALSE]

----------------------------------------------------------------------------
\* The validator.

\* The cases of the params switch that end with .required().
ParamsRequired(action) == action \in allowedActions \ {"info", "entriesByFiles"}

\* What the params rule of the schema finds wrong, in the order of its keys.
paramsViolations(b, allowUnknown) ==
  IF b.action = "info" THEN <<>>
  ELSE IF b.action \notin allowedActions
  THEN IF b.params THEN <<ParamsForbiddenMsg>> ELSE <<>>
  ELSE IF ~b.params
  THEN IF ParamsRequired(b.action) THEN <<ParamsRequiredMsg>> ELSE <<>>
  ELSE (IF b.branch = NoBranch THEN <<BranchRequiredMsg>> ELSE <<>>)
       \o (IF ~b.complete THEN <<FieldRequiredMsg>> ELSE <<>>)
       \o (IF b.extraParam /\ ~allowUnknown THEN <<ParamUnknownMsg>> ELSE <<>>)

\* A schema without the list of valid actions.
defaultSchemaAnyAction(b, allowUnknown) ==
  (IF b.action \in allowedActions THEN paramsViolations(b, allowUnknown) ELSE <<>>)
  \o (IF b.extraTop /\ ~allowUnknown THEN <<KeyUnknownMsg>> ELSE <<>>)

\* defaultSchema: every constraint of the schema a body violates, in the
\* order of the schema's keys: action, params, then keys it does not name.
defaultSchema(b, allowUnknown) ==
  (IF b.action \notin allowedActions THEN <<ActionInvalidMsg>> ELSE <<>>)
  \o paramsViolations(b, allowUnknown)
  \o (IF b.extraTop /\ ~allowUnknown THEN <<KeyUnknownMsg>> ELSE <<>>)

\* schema.validate(body, options).error.details: validation stops at the
\* first error (abortEarly is left at its default).
validate(b, allowUnknown) ==
  LET found == defaultSchema(b, allowUnknown)
  IN IF found = <<>> THEN <<>> ELSE <<Head(found)>>

\* A middleware that validates without options.
joiStrict(b) == validate(b, FALSE)

\* joi(schema): schema.validate(req.body, { allowUnknown: true }).
joi(b) == validate(b, TRUE)

\* Path strings are sequences of characters; a path is handled as the
\* sequence of its segments and written out with "/" where the code compares
\* strings.  The characters of each segment name used:
Chars(name) ==
  CASE name = "r" -> <<"r">>
    [] name = "rs" -> <<"r", "s">>
    [] name = "a" -> <<"a">>
    [] name = "d" -> <<"d">>
    [] name = "a.md" -> <<"a", ".", "m", "d">>
    [] name = "b.js" -> <<"b", ".", "j", "s">>
    [] name = "c.md" -> <<"c", ".", "m", "d">>
    [] name = ".md" -> <<".", "m", "d">>
    [] name = "" -> <<>>
    [] name = "img" -> <<"i", "m", "g">>
    [] name = "old" -> <<"o", "l", "d">>
    [] name = "a.png" -> <<"a", ".", "p", "n", "g">>
    [] name = "b.png" -> <<"b", ".", "p", "n", "g">>

\* The repository root, /r: path.resolve(GIT_REPO_DIRECTORY || cwd).
repoPath == <<"r">>

\* Segments of the values clients supply: names, "..", "." and the empty
\* segment a doubled or leading slash gives.
Segments == {"a", "r", "rs", "..", ".", ""}

RECURSIVE SeqsUpTo(_, _)
SeqsUpTo(S, n) ==
  IF n = 0 THEN {<<>>}
  ELSE LET shorter == SeqsUpTo(S, n - 1)
       IN shorter \cup {Append(q, x) : q \in shorter, x \in S}

PathValues == SeqsUpTo(Segments, MaxSegs)

\* The fields of the schema typed with the path validator.
PathFields ==
  {"params.path", "params.folder", "params.mediaFolder", "params.newPath",
   "params.asset.path", "params.paths[0]", "params.files[0].path"}

\* path.normalize of an absolute path: "." and empty segments drop out,
\* ".." removes the segment before it and stops at the root.
RECURSIVE normalize(_, _)
normalize(out, rest) ==
  IF rest = <<>> THEN out
  ELSE LET seg == Head(rest) IN
       IF seg \in {"", "."} THEN normalize(out, Tail(rest))
       ELSE IF seg = ".."
       THEN normalize(IF out = <<>> THEN <<>> ELSE SubSeq(out, 1, Len(out) - 1), Tail(rest))
       ELSE normalize(Append(out, seg), Tail(rest))

\* path.join(a, b)
join(a, b) == normalize(<<>>, a \o b)

\* The string of an absolute path.
RECURSIVE segString(_)
segString(segs) ==
  IF segs = <<>> THEN <<>>
  ELSE <<"/">> \o Chars(Head(segs)) \o segString(Tail(segs))

pathString(segs) == IF segs = <<>> THEN <<"/">> ELSE segString(segs)

\* String.prototype.startsWith
startsWith(str, prefix) ==
  Len(prefix) <= Len(str) /\ SubSeq(str, 1, Len(prefix)) = prefix

\* String.prototype.endsWith
endsWith(str, suffix) ==
  Len(suffix) <= Len(str) /\ SubSeq(str, Len(str) - Len(suffix) + 1, Len(str)) = suffix

\* pathTraversal(repoPath).validate: whether helpers.error('path.invalid')
\* is returned for the value.
pathInvalid(v) ==
  LET resolvedRepoPath == pathString(join(repoPath, <<>>))
      resolvedPath == pathString(join(repoPath, v))
  IN ~startsWith(resolvedPath, resolvedRepoPath)

\* messages['path.invalid'] with the field's label.
pathInvalidMsg(f) == f \o " must resolve to a path under the configured repository"

\* schema.validate on one path-typed field.
ValidatePath(f, v) ==
  /\ field = "none"
  /\ field' = f
  /\ value' = v
  /\ verdict' = IF pathInvalid(v) THEN pathInvalidMsg(f) ELSE "none"
  /\ UNCHANGED <<gvars, jvars, mvars, lvars, dvars>>

NextPath == \E f \in PathFields, v \in PathValues : ValidatePath(f, v)

SpecPath == Init /\ [][NextPath]_vars

\* The joi middleware on one body: what it finds and answers.
ValidateBody(b) ==
  /\ checked = NoBody
  /\ checked' = b
  /\ details' = joi(b)
  /\ UNCHANGED <<gvars, pvars, mvars, lvars, dvars>>

NextJoi == \E b \in AllBodies : ValidateBody(b)

SpecJoi == Init /\ [][NextJoi]_vars

----------------------------------------------------------------------------
\* The gate.

\* Mutex release handing the lock on: the oldest waiter gets the ticket; a
\* waiter whose acquire has timed out releases the ticket at once, so the
\* lock passes to the next one.
\* A release that hands the ticket to a timed-out waiter as to any other.
DispatchNoSkip(q, st) ==
  IF q = <<>> THEN [granted |-> {}, queue |-> <<>>, stale |-> st]
  ELSE [granted |-> {Head(q)}, queue |-> Tail(q), stale |-> st]

RECURSIVE Dispatch(_, _)
Dispatch(q, st) ==
  IF q = <<>> THEN [granted |-> {}, queue |-> <<>>, stale |-> st]
  ELSE IF Head(q) \in st THEN Dispatch(Tail(q), st \ {Head(q)})
  ELSE [granted |-> {Head(q)}, queue |-> Tail(q), stale |-> st]

\* A lock that admits a caller while it is held.
CanLockAlways(h) == TRUE

\* mutex.acquire() while the lock is free.
CanLock(h) == h = {}

\* The record of a call: who made it, what it was, the branch checked out
\* when it ran (for the restore checkout: the branch it left checked out),
\* whether the caller held the gate when it ran, for a move the data file
\* moved, and for a commit the requests whose changes it took.
Event(r, kind) ==
  [req |-> r, kind |-> kind, cur |-> current, held |-> release[r] /\ r \in holder,
   file |-> 0, took |-> {}]

\* A change to the working tree: who made it, by which call, and for a
\* move of which data file.
Change(r, kind, i) == [req |-> r, kind |-> kind, file |-> i]

Log(r, kind) == events' = events \cup {Event(r, kind)}

----------------------------------------------------------------------------
\* The request handler.

\* details.map(i => i.message).join(',')
RECURSIVE Join(_)
Join(msgs) ==
  IF msgs = <<>> THEN ""
  ELSE IF Len(msgs) = 1 THEN msgs[1]
  ELSE msgs[1] \o "," \o Join(Tail(msgs))

\* res.status(status).json({ error }) or, with status 200, res.json(payload).
Send(r, status, error) ==
  resp' = [resp EXCEPT ![r] = Append(@, [status |-> status, error |-> error])]

\* A handler that releases after a successful answer only.
FinallyOnSuccess(r) ==
  IF release[r] /\ resp'[r][Len(resp'[r])].status = 200
  THEN LET d == Dispatch(queue, stale)
       IN /\ holder' = (holder \ {r}) \cup d.granted
          /\ queue' = d.queue
          /\ stale' = d.stale
          /\ release' = [x \in Reqs |-> IF x = r THEN FALSE
                                        ELSE IF x \in d.granted THEN TRUE ELSE release[x]]
          /\ pc' = [x \in Reqs |-> IF x = r THEN "done"
                                   ELSE IF x \in d.granted THEN "locked" ELSE pc[x]]
          /\ waited' = [x \in Reqs |-> IF x \in d.granted THEN 0 ELSE waited[x]]
  ELSE /\ pc' = [pc EXCEPT ![r] = "done"]
       /\ UNCHANGED <<holder, queue, stale, release, waited>>

\* finally { release && release() }: the handler returns; releasing hands
\* the lock to the next waiter, whose handler resumes after its acquire.
Finally(r) ==
  IF release[r]
  THEN LET rest == holder \ {r}
           d == IF rest = {} THEN Dispatch(queue, stale)
                ELSE [granted |-> {}, queue |-> queue, stale |-> stale]
       IN /\ holder' = rest \cup d.granted
          /\ queue' = d.queue
          /\ stale' = d.stale
          /\ release' = [x \in Reqs |-> IF x = r THEN FALSE
                                        ELSE IF x \in d.granted THEN TRUE ELSE release[x]]
          /\ pc' = [x \in Reqs |-> IF x = r THEN "done"
                                   ELSE IF x \in d.granted THEN "locked" ELSE pc[x]]
          /\ waited' = [x \in Reqs |-> IF x \in d.granted THEN 0 ELSE waited[x]]
  ELSE /\ pc' = [pc EXCEPT ![r] = "done"]
       /\ UNCHANGED <<holder, queue, stale, release, waited>>

\* The body of the error message sent by the catch block.
CatchBody(msg) == UnknownErrorMsg

\* A catch block that logs the error and sends nothing.
CatchNoAnswer(r, msg) ==
  /\ thrown' = [thrown EXCEPT ![r] = msg]
  /\ UNCHANGED resp
  /\ Finally(r)

\* catch (e) { logger.error(..e.message); res.status(500).json(...) } finally
Catch(r, msg) ==
  /\ thrown' = [thrown EXCEPT ![r] = msg]
  /\ Send(r, 500, CatchBody(msg))
  /\ Finally(r)

\* A response sent from the try block, followed by return or break.
Answer(r, status, error) ==
  /\ Send(r, status, error)
  /\ Finally(r)
  /\ UNCHANGED thrown

\* POST /api/v1: the joi middleware, then localGitMiddleware up to its await
\* of mutex.acquire().  Requests are numbered in order of arrival.
Submit(r, b) ==
  /\ running
  /\ pc[r] = "idle"
  /\ \A x \in Reqs : x < r => pc[x] # "idle"
  /\ body' = [body EXCEPT ![r] = b]
  /\ LET messages == joi(b) IN
     IF messages # <<>>
     THEN /\ Send(r, 422, Join(messages))
          /\ pc' = [pc EXCEPT ![r] = "done"]
          /\ UNCHANGED <<release, holder, queue>>
     ELSE IF CanLock(holder)
     THEN /\ holder' = holder \cup {r}
          /\ release' = [release EXCEPT ![r] = TRUE]
          /\ pc' = [pc EXCEPT ![r] = "locked"]
          /\ UNCHANGED <<resp, queue>>
     ELSE /\ queue' = Append(queue, r)
          /\ pc' = [pc EXCEPT ![r] = "waiting"]
          /\ UNCHANGED <<resp, release, holder>>
  /\ UNCHANGED <<saved, thrown, step, detached, stale, waited, current, running, events>>
  /\ UNCHANGED <<dirty, staged>>
  /\ UNCHANGED <<pvars, jvars, mvars, lvars, dvars>>

\* A timer that keeps running after the ticket was granted.
TimerArmedAlways(r) == pc[r] \notin {"idle", "done"}

\* withTimeout's timer is set when acquire is called and cleared when the
\* ticket is granted.
TimerArmed(r) == pc[r] = "waiting"

\* One second passes for the requests waiting in acquire; a timer that is
\* due fires before more time passes.
Tick ==
  /\ running
  /\ \E r \in Reqs : TimerArmed(r)
  /\ \A r \in Reqs : TimerArmed(r) => waited[r] < AcquireTimeout
  /\ waited' = [r \in Reqs |-> IF TimerArmed(r) THEN waited[r] + 1 ELSE waited[r]]
  /\ UNCHANGED <<pc, body, resp, release, saved, thrown, step, detached, holder, queue, stale,
                 current, running, events>>
  /\ UNCHANGED <<dirty, staged>>
  /\ UNCHANGED <<pvars, jvars, mvars, lvars, dvars>>

\* withTimeout's timer fires: acquire rejects with the timeout error, the
\* waiter stays queued as timed out, the handler catches and returns.
Timeout(r) ==
  /\ running
  /\ TimerArmed(r)
  /\ waited[r] = AcquireTimeout
  /\ stale' = stale \cup {r}
  /\ thrown' = [thrown EXCEPT ![r] = TimeoutMsg]
  /\ Send(r, 500, CatchBody(TimeoutMsg))
  /\ pc' = [pc EXCEPT ![r] = "done"]
  /\ waited' = [waited EXCEPT ![r] = 0]
  /\ UNCHANGED <<body, release, saved, step, detached, holder, queue, current, running,
                 events>>
  /\ UNCHANGED <<dirty, staged>>
  /\ UNCHANGED <<pvars, jvars, mvars, lvars, dvars>>

\* A branch check that finds every branch.
isBranchExistsAlways(branch) == TRUE

\* isBranchExists: git.branchLocal().all.includes(branch)
isBranchExists(branch) == branch \in LocalBranches

\* Read cases that commit what they find in the working tree.
OpStepsReadsCommit(action) ==
  IF action \in ReadActions THEN <<"read", "add", "commit">>
  ELSE IF action = "persistEntry" THEN <<"write", "writeAssets", "add", "commit">>
  ELSE IF action = "persistMedia" THEN <<"write", "add", "commit", "read">>
  ELSE IF action \in DeleteActions THEN <<"delete", "add", "commit">>
  ELSE <<>>

\* The awaited calls of the operation each case of the switch passes to
\* runOnBranch, in order; commit is git.add then git.commit.
OpSteps(action) ==
  IF action \in ReadActions THEN <<"read">>
  ELSE IF action = "persistEntry" THEN <<"write", "writeAssets", "add", "commit">>
  ELSE IF action = "persistMedia" THEN <<"write", "add", "commit", "read">>
  ELSE IF action \in DeleteActions THEN <<"delete", "add", "commit">>
  ELSE <<>>

\* Which library a call belongs to, hence the error it throws.
FailMsg(kind) == IF kind \in {"add", "commit"} THEN GitMsg ELSE FsMsg

\* A handler that runs the branch check for info as well.
EnterAlwaysChecks(r) ==
  /\ running
  /\ pc[r] = "locked"
  /\ IF ~body[r].params
     THEN Catch(r, TypeErrorMsg)
     ELSE /\ pc' = [pc EXCEPT ![r] = "isBranchExists"]
          /\ UNCHANGED <<resp, release, thrown, holder, queue, stale, waited>>
  /\ UNCHANGED <<body, saved, step, detached, current, running, events>>
  /\ UNCHANGED <<dirty, staged>>
  /\ UNCHANGED <<pvars, jvars, mvars, lvars, dvars>>

\* The handler resumes after acquire (lines 110-120): info is answered at
\* once; destructuring body.params throws when params is missing.
Enter(r) ==
  /\ running
  /\ pc[r] = "locked"
  /\ IF body[r].action = "info"
     THEN Answer(r, 200, "")
     ELSE IF ~body[r].params
     THEN Catch(r, TypeErrorMsg)
     ELSE /\ pc' = [pc EXCEPT ![r] = "isBranchExists"]
          /\ UNCHANGED <<resp, release, thrown, holder, queue, stale, waited>>
  /\ UNCHANGED <<body, saved, step, detached, current, running, events>>
  /\ UNCHANGED <<dirty, staged>>
  /\ UNCHANGED <<pvars, jvars, mvars, lvars, dvars>>

\* isBranchExists returns or throws; the switch up to the next await
\* (lines 120-230).
BranchChecked(r, ok) ==
  /\ running
  /\ pc[r] = "isBranchExists"
  /\ Log(r, "branchLocal")
  /\ IF ~ok THEN Catch(r, GitMsg)
     ELSE IF ~isBranchExists(body[r].branch) THEN Answer(r, 422, BranchMissingMsg)
     ELSE IF body[r].action = "getDeployPreview" THEN Answer(r, 200, "")
     ELSE IF OpSteps(body[r].action) = <<>> THEN Answer(r, 422, UnknownActionMsg)
     ELSE /\ pc' = [pc EXCEPT ![r] = "getCurrentBranch"]
          /\ UNCHANGED <<resp, release, thrown, holder, queue, stale, waited>>
  /\ UNCHANGED <<body, saved, step, detached, current, running>>
  /\ UNCHANGED <<dirty, staged>>
  /\ UNCHANGED <<pvars, jvars, mvars, lvars, dvars>>

\* runOnBranch: getCurrentBranch returns or throws (lines 44-49).
GotCurrentBranch(r, ok) ==
  /\ running
  /\ pc[r] = "getCurrentBranch"
  /\ Log(r, "branchLocal")
  /\ IF ~ok
     THEN /\ Catch(r, GitMsg)
          /\ UNCHANGED <<saved, step>>
     ELSE /\ saved' = [saved EXCEPT ![r] = current]
          /\ IF current # body[r].branch
             THEN /\ pc' = [pc EXCEPT ![r] = "checkout"]
                  /\ UNCHANGED step
             ELSE /\ pc' = [pc EXCEPT ![r] = "op"]
                  /\ step' = [step EXCEPT ![r] = 1]
          /\ UNCHANGED <<resp, release, thrown, holder, queue, stale, waited>>
  /\ UNCHANGED <<body, detached, current, running>>
  /\ UNCHANGED <<dirty, staged>>
  /\ UNCHANGED <<pvars, jvars, mvars, lvars, dvars>>

\* A runOnBranch whose try block does not cover the checkout: a failing
\* checkout goes to the caller without the restore.
CheckedOutNoFinally(r, ok) ==
  /\ running
  /\ pc[r] = "checkout"
  /\ IF ok
     THEN /\ current' = body[r].branch
          /\ events' = events \cup {Event(r, "checkout")}
          /\ pc' = [pc EXCEPT ![r] = "op"]
          /\ step' = [step EXCEPT ![r] = 1]
          /\ UNCHANGED <<thrown, resp, release, holder, queue, stale, waited>>
     ELSE /\ Catch(r, GitMsg)
          /\ UNCHANGED <<current, events, step>>
  /\ UNCHANGED <<body, saved, detached, running>>
  /\ UNCHANGED <<dirty, staged>>
  /\ UNCHANGED <<pvars, jvars, mvars, lvars, dvars>>

\* runOnBranch: git.checkout(branch) returns or throws (line 47).
CheckedOut(r, ok) ==
  /\ running
  /\ pc[r] = "checkout"
  /\ IF ok
     THEN /\ current' = body[r].branch
          /\ events' = events \cup {Event(r, "checkout")}
          /\ pc' = [pc EXCEPT ![r] = "op"]
          /\ step' = [step EXCEPT ![r] = 1]
          /\ UNCHANGED thrown
     ELSE /\ thrown' = [thrown EXCEPT ![r] = GitMsg]
          /\ pc' = [pc EXCEPT ![r] = "restore"]
          /\ UNCHANGED <<current, events, step>>
  /\ UNCHANGED <<body, resp, release, saved, detached, holder, queue, stale, waited,
                 running>>
  /\ UNCHANGED <<dirty, staged>>
  /\ UNCHANGED <<pvars, jvars, mvars, lvars, dvars>>

\* A commitEntry that moves as soon as some data file carries newPath.
DroppedIfSome(b, kind) ==
  IF b.action = "persistEntry" /\ kind = "writeAssets"
       /\ \E i \in DOMAIN b.newPaths : b.newPaths[i]
  THEN DOMAIN b.newPaths ELSE {}

\* The data files whose move commitEntry starts without awaiting it once
\* the awaited call `kind` has returned (lines 72-76):
\*   if (dataFiles.every(f => f.newPath)) dataFiles.forEach(async f => move(..))
Dropped(b, kind) ==
  IF b.action = "persistEntry" /\ kind = "writeAssets"
       /\ \A i \in DOMAIN b.newPaths : b.newPaths[i]
  THEN DOMAIN b.newPaths ELSE {}

\* A call whose failure goes to the caller whatever it is.
SwallowsNothing(kind) == FALSE

\* deleteFile: fs.unlink(...).catch(() => undefined)
Swallows(kind) == kind = "delete"

\* One awaited call of the operation returns or throws (line 49); a
\* failure that is swallowed counts as a return.  A write or a delete that
\* returns has changed the working tree; git add(".") stages every change
\* the working tree holds; git commit commits what is staged.
OpStep(r, ok) ==
  /\ running
  /\ pc[r] = "op"
  /\ LET steps == OpSteps(body[r].action)
         kind == steps[step[r]]
     IN IF ok \/ Swallows(kind)
        THEN /\ events' = events \cup
                  {[Event(r, IF ok THEN kind ELSE "unlinkFailed")
                      EXCEPT !.took = IF kind = "commit" THEN {c.req : c \in staged} ELSE {}]}
             /\ dirty' = IF ok /\ kind \in {"write", "writeAssets", "delete"}
                         THEN dirty \cup {Change(r, kind, 0)}
                         ELSE IF kind = "commit" THEN dirty \ staged ELSE dirty
             /\ staged' = IF kind = "add" THEN dirty
                          ELSE IF kind = "commit" THEN {} ELSE staged
             /\ detached' = [detached EXCEPT ![r] = @ \cup Dropped(body[r], kind)]
             /\ IF step[r] < Len(steps)
                THEN /\ step' = [step EXCEPT ![r] = @ + 1]
                     /\ UNCHANGED pc
                ELSE /\ step' = [step EXCEPT ![r] = 0]
                     /\ pc' = [pc EXCEPT ![r] = "restore"]
             /\ UNCHANGED thrown
        ELSE /\ thrown' = [thrown EXCEPT ![r] = FailMsg(kind)]
             /\ step' = [step EXCEPT ![r] = 0]
             /\ pc' = [pc EXCEPT ![r] = "restore"]
             /\ UNCHANGED <<events, detached, dirty, staged>>
  /\ UNCHANGED <<body, resp, release, saved, holder, queue, stale, waited, current,
                 running>>
  /\ UNCHANGED <<pvars, jvars, mvars, lvars, dvars>>

\* A finally block that leaves the branch as it is.
RestoreBranchSkipped(r) == current

\* The branch the finally block of runOnBranch checks out (line 52).
RestoreBranch(r) == saved[r]

\* runOnBranch: the finally block's checkout returns or throws; the value
\* or the error reaches the handler, which answers and releases
\* (lines 52, 139-235).
Restored(r, ok) ==
  /\ running
  /\ pc[r] = "restore"
  /\ IF ok
     THEN /\ current' = RestoreBranch(r)
          /\ events' = events \cup {[Event(r, "restore") EXCEPT !.cur = RestoreBranch(r)]}
          /\ IF thrown[r] = NoError THEN Answer(r, 200, "") ELSE Catch(r, thrown[r])
     ELSE /\ events' = events \cup {Event(r, "restoreFailed")}
          /\ Catch(r, GitMsg)
          /\ UNCHANGED current
  /\ UNCHANGED <<body, saved, step, detached, running>>
  /\ UNCHANGED <<dirty, staged>>
  /\ UNCHANGED <<pvars, jvars, mvars, lvars, dvars>>

\* What becomes of a move nobody awaits: it renames the file, or it fails
\* and the rejection is unhandled, which the runtime reports and goes on
\* (Node 14) or turns into an uncaught exception that ends the process
\* (Node 15 and later); package.json asks for node >= 14.
MoveOutcomes == {"moved", "lost", "fatal"}

\* A move that was started and not awaited runs (fs.ts move: mkdir, rename).
DetachedStep(r, i, outcome) ==
  /\ running
  /\ i \in detached[r]
  /\ detached' = [detached EXCEPT ![r] = @ \ {i}]
  /\ events' = events \cup
       {[Event(r, IF outcome = "moved" THEN "rename" ELSE "renameFailed") EXCEPT !.file = i]}
  /\ dirty' = IF outcome = "moved" THEN dirty \cup {Change(r, "rename", i)} ELSE dirty
  /\ running' = (outcome # "fatal")
  /\ UNCHANGED <<pc, body, resp, release, saved, thrown, step, holder, queue, stale,
                 waited, current, staged>>
  /\ UNCHANGED <<pvars, jvars, mvars, lvars, dvars>>

Next ==
  \/ \E r \in Reqs, b \in Bodies : Submit(r, b)
  \/ Tick
  \/ \E r \in Reqs : Timeout(r)
  \/ \E r \in Reqs : Enter(r)
  \/ \E r \in Reqs, ok \in BOOLEAN : BranchChecked(r, ok)
  \/ \E r \in Reqs, ok \in BOOLEAN : GotCurrentBranch(r, ok)
  \/ \E r \in Reqs, ok \in BOOLEAN : CheckedOut(r, ok)
  \/ \E r \in Reqs, ok \in BOOLEAN : OpStep(r, ok)
  \/ \E r \in Reqs, ok \in BOOLEAN : Restored(r, ok)
  \/ \E r \in Reqs, i \in 1..MaxFiles, outcome \in MoveOutcomes : DetachedStep(r, i, outcome)

Spec == Init /\ [][Next]_vars

\* What the server does by itself once requests are in: timers, the
\* continuations of the handlers and the moves left running.
Progress ==
  \/ Tick
  \/ \E r \in Reqs : Timeout(r)
  \/ \E r \in Reqs : Enter(r)
  \/ \E r \in Reqs, ok \in BOOLEAN : BranchChecked(r, ok)
  \/ \E r \in Reqs, ok \in BOOLEAN : GotCurrentBranch(r, ok)
  \/ \E r \in Reqs, ok \in BOOLEAN : CheckedOut(r, ok)
  \/ \E r \in Reqs, ok \in BOOLEAN : OpStep(r, ok)
  \/ \E r \in Reqs, ok \in BOOLEAN : Restored(r, ok)
  \/ \E r \in Reqs, i \in 1..MaxFiles, outcome \in MoveOutcomes : DetachedStep(r, i, outcome)

\* The event loop runs whatever is ready, and every git and filesystem
\* call returns or fails: the server does not stop while it has a step to
\* take.  Clients need not send anything.
FairSpec == Spec /\ WF_vars(Progress)

\* One client that sends one persistEntry; nobody waits for the gate.
NextEntry ==
  \/ \E b \in EntryBodies : Submit(1, b)
  \/ Enter(1)
  \/ \E ok \in BOOLEAN : BranchChecked(1, ok)
  \/ \E ok \in BOOLEAN : GotCurrentBranch(1, ok)
  \/ \E ok \in BOOLEAN : CheckedOut(1, ok)
  \/ \E ok \in BOOLEAN : OpStep(1, ok)
  \/ \E ok \in BOOLEAN : Restored(1, ok)
  \/ \E i \in 1..MaxFiles, outcome \in MoveOutcomes : DetachedStep(1, i, outcome)

SpecEntry == Init /\ [][NextEntry]_vars

----------------------------------------------------------------------------
\* getMedia.

\* params.mediaFolder, and the names readdir finds in it.
mediaFolder == <<"img">>
EntryNames == {"a.png", "b.png", "old"}

\* fs.Dirent: a name and whether it is a directory.
Dirents == [name : EntryNames, isDirectory : BOOLEAN]

\* The file of an FsItem whose name does not end with the extension:
\* [res].filter(f => f.endsWith(extension))[0] is undefined.
NoFile == <<>>

\* listFiles(dir, extension, depth), given what readdir(dir) does: nothing
\* when depth is used up or readdir fails, else one FsItem per entry of dir,
\* directories included, its file the joined path when that ends with the
\* extension.  depth is compared with 0 and not used otherwise: no
\* directory below dir is read.
listFiles(dir, extension, depth, readdir) ==
  IF depth <= 0 \/ readdir.failed THEN <<>>
  ELSE [i \in 1..Len(readdir.entries) |->
          LET res == dir \o <<readdir.entries[i].name>>
          IN [file |-> IF endsWith(pathString(res), Chars(extension)) THEN res ELSE NoFile,
              isDirectory |-> readdir.entries[i].isDirectory]]

\* files.filter(f => f.file)
RECURSIVE withFile(_)
withFile(items) ==
  IF items = <<>> THEN <<>>
  ELSE (IF Head(items).file # NoFile THEN <<Head(items)>> ELSE <<>>) \o withFile(Tail(items))

\* listRepoFiles(repoPath, folder, extension, depth): the FsItems of the
\* folder that have a file, with file cut down to the path below the
\* repository root.
listRepoFiles(folder, extension, depth, readdir) ==
  LET files == listFiles(join(repoPath, folder), extension, depth, readdir)
      kept == withFile(files)
  IN [i \in 1..Len(kept) |->
        [file |-> SubSeq(kept[i].file, Len(repoPath) + 1, Len(kept[i].file)),
         isDirectory |-> kept[i].isDirectory]]

\* The case "getMedia" maps the items with
\*   file => ({ path: file.replace(..), url: path.join(repoPath, file).replace(..) })
\* where file is an FsItem, an object with no replace method: mapping the
\* first item throws a TypeError, which the handler's catch answers with
\* 500.  With no items the map returns [] and res.json sends it.
getMedia(files) ==
  IF files = <<>> THEN [status |-> 200, body |-> <<>>, error |-> ""]
  ELSE [status |-> 500, body |-> <<>>, error |-> CatchBody(NoReplaceMsg)]

\* One getMedia request on a media folder with the given entries.
GetMedia(dirents, failed) ==
  /\ media = NoMedia
  /\ listing' = [entries |-> dirents, failed |-> failed]
  /\ media' = getMedia(listRepoFiles(mediaFolder, "", 1,
                                      [failed |-> failed, entries |-> dirents]))
  /\ UNCHANGED <<gvars, pvars, jvars, lvars, dvars>>

\* What a directory can hold: no two entries have the same name.
DistinctSeqs(D, n) ==
  { q \in SeqsUpTo(D, n) : \A i, j \in 1..Len(q) : q[i].name = q[j].name => i = j }

NextMedia ==
  \E dirents \in DistinctSeqs(Dirents, MaxEntries), failed \in BOOLEAN : GetMedia(dirents, failed)

SpecMedia == Init /\ [][NextMedia]_vars

----------------------------------------------------------------------------
\* listRepoFiles.

\* The folder listed, the files and the directory it can hold, and the
\* files that directory can hold.
listFolder == <<"a">>
FileNames == {"a.md", "b.js"}
TopDirents ==
  [name : FileNames, isDirectory : {FALSE}] \cup {[name |-> "d", isDirectory |-> TRUE]}
SubDirents == [name : FileNames, isDirectory : {FALSE}]

\* What readdir can do on a directory holding entries of D.
Readdirs(D) ==
  {[failed |-> TRUE, entries |-> <<>>]}
    \cup [failed : {FALSE}, entries : DistinctSeqs(D, MaxListed)]

\* The extensions asked for.
Extensions == {"", ".md", "d"}

\* One call of listRepoFiles on the folder; readdir is called on the folder
\* only.
ListRepoFiles(top, sub, extension, depth) ==
  /\ ~query.asked
  /\ disk' = [top |-> top, sub |-> sub]
  /\ query' = [extension |-> extension, depth |-> depth, asked |-> TRUE]
  /\ fsItems' = listRepoFiles(listFolder, extension, depth, top)
  /\ UNCHANGED <<gvars, pvars, jvars, mvars, dvars>>

NextList ==
  \E top \in Readdirs(TopDirents), sub \in Readdirs(SubDirents),
     extension \in Extensions, depth \in 0..MaxDepth :
    ListRepoFiles(top, sub, extension, depth)

SpecList == Init /\ [][NextList]_vars

----------------------------------------------------------------------------
\* move.

\* path.dirname
dirname(p) == SubSeq(p, 1, Len(p) - 1)

\* Path p is path a or lies below it.
Below(p, a) == Len(a) <= Len(p) /\ SubSeq(p, 1, Len(a)) = a

\* str.replace(a, b) on a path that starts with a: the first occurrence of
\* a is the start of the path.
replace(p, a, b) == IF Below(p, a) THEN b \o SubSeq(p, Len(a) + 1, Len(p)) ELSE p

\* The entries of a directory of the tree.
Entries(tree, dir) == {p \in tree.files \cup tree.dirs : Len(p) > 0 /\ dirname(p) = dir}

\* fs.mkdir(dir, { recursive: true }): dir and the directories above it
\* exist afterwards.
mkdir(tree, dir) ==
  [tree EXCEPT !.dirs = @ \cup {SubSeq(dir, 1, n) : n \in 1..Len(dir)}]

\* fs.rename(a, b): a missing source, a directory renamed into itself, a
\* directory onto a file or onto a directory that is not empty, and a file
\* onto a directory fail; otherwise a, with all below it, is at b
\* afterwards, replacing what was there.
rename(tree, a, b) ==
  IF a \notin tree.files \cup tree.dirs THEN [tree |-> tree, threw |-> TRUE]
  ELSE IF a = b THEN [tree |-> tree, threw |-> FALSE]
  ELSE IF \/ a \in tree.dirs /\ Below(b, a)
          \/ a \in tree.dirs /\ b \in tree.files
          \/ a \in tree.dirs /\ b \in tree.dirs /\ Entries(tree, b) # {}
          \/ a \in tree.files /\ b \in tree.dirs
  THEN [tree |-> tree, threw |-> TRUE]
  ELSE [tree |-> [files |-> {replace(f, a, b) : f \in tree.files \ {b}},
                  dirs |-> {replace(d, a, b) : d \in tree.dirs}],
        threw |-> FALSE]

\* moveFile(from, to): mkdir of to's directory, then rename.
moveFile(tree, from, to) == rename(mkdir(tree, dirname(to)), from, to)

\* An order in which readdir returns the entries of a set.
RECURSIVE InOrder(_)
InOrder(S) ==
  IF S = {} THEN <<>>
  ELSE LET p == CHOOSE x \in S : TRUE IN <<p>> \o InOrder(S \ {p})

\* fs.readdir(dir, { withFileTypes: true }) on the tree.
readdir(tree, dir, unreadable) ==
  IF unreadable \/ dir \notin tree.dirs THEN [failed |-> TRUE, entries |-> <<>>]
  ELSE LET paths == InOrder(Entries(tree, dir))
       IN [failed |-> FALSE,
           entries |-> [i \in 1..Len(paths) |->
                          [name |-> paths[i][Len(paths[i])],
                           isDirectory |-> paths[i] \in tree.dirs]]]

\* Promise.all(allFiles.map(item => moveFile(item.file, item.file.replace(..)))):
\* every moveFile runs, whether or not another one fails, and the whole
\* throws when one of them does.  The items are entries of one directory,
\* so the renames do not depend on each other's order.
RECURSIVE moveAll(_, _, _, _)
moveAll(tree, items, sourceDir, destDir) ==
  IF items = <<>> THEN [tree |-> tree, threw |-> FALSE]
  ELSE LET one == moveFile(tree, Head(items).file,
                           replace(Head(items).file, sourceDir, destDir))
           rest == moveAll(one.tree, Tail(items), sourceDir, destDir)
       IN [tree |-> rest.tree, threw |-> one.threw \/ rest.threw]

\* A move that renames the file and leaves what is beside it.
moveFileOnly(tree, from, to, unreadable) == moveFile(tree, from, to)

\* move(from, to): moveFile, then every entry listed in from's directory is
\* moved to the same name in to's directory.
move(tree, from, to, unreadable) ==
  LET first == moveFile(tree, from, to)
      sourceDir == dirname(from)
      destDir == dirname(to)
      allFiles == listFiles(sourceDir, "", 100, readdir(first.tree, sourceDir, unreadable))
  IN IF first.threw THEN first
     ELSE moveAll(first.tree, allFiles, sourceDir, destDir)

\* The directories of the working tree the moves are made in: the source
\* directory, one beside it and one inside it.
SourceDir == repoPath \o <<"a">>
BesideDir == repoPath \o <<"d">>
InsideDir == SourceDir \o <<"d">>

\* The file moved, and where to.
From == SourceDir \o <<"a.md">>
Targets ==
  {SourceDir \o <<"c.md">>, BesideDir \o <<"a.md">>, BesideDir \o <<"c.md">>,
   InsideDir \o <<"a.md">>}

\* The working trees moved in: the file, maybe another file beside it, and
\* the two other directories, each missing, empty or holding a file.
Trees ==
  { [files |-> {From} \cup fs, dirs |-> {repoPath, SourceDir} \cup ds] :
      fs \in SUBSET {SourceDir \o <<"b.js">>, BesideDir \o <<"b.js">>, InsideDir \o <<"b.js">>},
      ds \in SUBSET {BesideDir, InsideDir} }

\* One call of move.
Move(tree, to, unreadable) ==
  /\ call = NoCall
  /\ \A f \in tree.files : dirname(f) \in tree.dirs
  /\ before' = tree
  /\ call' = [from |-> From, to |-> to, unreadable |-> unreadable]
  /\ after' = move(tree, From, to, unreadable)
  /\ UNCHANGED <<gvars, pvars, jvars, mvars, lvars>>

NextMove == \E tree \in Trees, to \in Targets, unreadable \in BOOLEAN : Move(tree, to, unreadable)

SpecMove == Init /\ [][NextMove]_vars

----------------------------------------------------------------------------
\* Properties.

\* Request r is between gate acquisition and gate release.
InCS(r) == pc[r] \in {"locked", "isBranchExists", "getCurrentBranch", "checkout", "op", "restore"}

\* Request r has its ticket and has not released it.
Holds(r) == release[r] /\ r \in holder

Finished == \A r \in Reqs : pc[r] = "done"

EventsOf(r) == {e \in events : e.req = r}
KindsOf(r) == {e.kind : e \in EventsOf(r)}

\* The calls that change the working tree's files.
MutationKinds == {"write", "writeAssets", "delete", "rename"}

\* The calls an operation makes on the working tree and the repository.
OperationKinds == MutationKinds \cup {"read", "add", "commit"}

\* C1: a request that has answered and returned holds the gate no more,
\* whatever its outcome, and once every request has finished the mutex is
\* free with nobody queued.
C1_GateReleased ==
  /\ \A r \in Reqs : pc[r] = "done" => ~Holds(r) /\ ~release[r] /\ r \notin holder
  /\ (\A r \in Reqs : pc[r] \in {"idle", "done"}) => holder = {} /\ queue = <<>>

\* C1 witness: everything has finished, one request after a timeout and one
\* after a failed restore checkout.
C1_Witness ==
  /\ Finished
  /\ \E r \in Reqs : thrown[r] = TimeoutMsg
  /\ \E r \in Reqs : "restoreFailed" \in KindsOf(r)

C3_OneInGate ==
  /\ Cardinality({r \in Reqs : InCS(r)}) <= 1
  /\ \A r \in Reqs : InCS(r) => holder = {r} /\ release[r]
  /\ \A r \in Reqs : ~InCS(r) => ~release[r]

\* C3 witness: a read runs its operation while a write waits for the gate.
C3_Witness ==
  \E r, w \in Reqs :
    /\ pc[r] = "op" /\ body[r].action = "getEntry"
    /\ pc[w] = "waiting" /\ body[w].action = "persistEntry"

\* C4: every call of a request's operation runs while the request's own
\* branch is checked out.
C4_OperationOnOwnBranch ==
  \A e \in events : e.kind \in OperationKinds => e.cur = body[e.req].branch

\* C5: every filesystem mutation of a request runs while the request holds
\* the gate, and none is pending once the request has let go of it.
C5_MutationsUnderGate ==
  /\ \A e \in events : e.kind \in MutationKinds => e.held
  /\ \A r \in Reqs : detached[r] # {} => Holds(r)

\* The resolved value is the root or below it.
UnderRoot(v) ==
  LET root == join(repoPath, <<>>)
      resolved == join(repoPath, v)
  IN Len(root) <= Len(resolved) /\ SubSeq(resolved, 1, Len(root)) = root

\* C6: a path-typed value fails with the field's "must resolve to a path
\* under the configured repository" message exactly when it resolves
\* outside the root.
C6_OutsideRejected ==
  field # "none" =>
    /\ ~UnderRoot(value) => verdict = pathInvalidMsg(field)
    /\ UnderRoot(value) => verdict = "none"

\* C7 as stated: an unsupported action is answered 422 with the "Unknown
\* action" message and never acquires the gate.
C7_UnknownActionMessage ==
  \A r \in Reqs :
    (pc[r] = "done" /\ body[r].action \notin allowedActions) =>
      /\ resp[r] = <<[status |-> 422, error |-> UnknownActionMsg]>>
      /\ EventsOf(r) = {}

\* C7 amended: an unsupported action is answered 422 by the validator, with
\* its message that action must be one of the allowed actions; the request
\* never reaches the handler, so it never acquires or waits for the gate.
C7_UnknownActionRejected ==
  \A r \in Reqs :
    (pc[r] # "idle" /\ body[r].action \notin allowedActions) =>
      /\ pc[r] = "done"
      /\ resp[r] = <<[status |-> 422, error |-> ActionInvalidMsg]>>
      /\ EventsOf(r) = {} /\ ~release[r] /\ r \notin holder
      /\ \A i \in 1..Len(queue) : queue[i] # r

\* C7 witness: frobnicate has been answered while another request is in
\* the gate.
C7_Witness ==
  \E r, h \in Reqs :
    /\ body[r].action = "frobnicate" /\ pc[r] = "done" /\ Len(resp[r]) = 1
    /\ pc[h] = "op"

\* C8: a request whose acquire timed out is answered 500 after the
\* "Request timed out" error, makes no git or filesystem call then or
\* later, and never holds the gate.
C8_TimeoutStaysOut ==
  /\ \A r \in Reqs : pc[r] = "waiting" => waited[r] <= AcquireTimeout /\ ~release[r]
  /\ \A r \in Reqs :
       (thrown[r] = TimeoutMsg \/ r \in stale) =>
         /\ thrown[r] = TimeoutMsg
         /\ pc[r] = "done"
         /\ resp[r] = <<[status |-> 500, error |-> UnknownErrorMsg]>>
         /\ EventsOf(r) = {} /\ detached[r] = {}
         /\ ~release[r] /\ r \notin holder

\* C8 witness: a request timed out and the gate has since become free.
C8_Witness ==
  \E r \in Reqs : thrown[r] = TimeoutMsg /\ holder = {} /\ queue = <<>> /\ Finished

\* C9: a validated request other than info whose branch is no local branch
\* makes the branch check and nothing else; once the check has returned it
\* is answered 422 with the branch message, and it lets go of the gate.
C9_MissingBranch ==
  \A r \in Reqs :
    (body[r].action \in allowedActions \ {"info"} /\ body[r].branch \notin LocalBranches
       /\ body[r].branch # NoBranch) =>
      /\ pc[r] \in {"locked", "waiting", "isBranchExists", "done"}
      /\ KindsOf(r) \subseteq {"branchLocal"}
      /\ detached[r] = {}
      /\ pc[r] = "done" => ~Holds(r)
      /\ (pc[r] = "done" /\ thrown[r] = NoError) =>
           resp[r] = <<[status |-> 422, error |-> BranchMissingMsg]>>

\* C9 witness: a persistEntry on a branch that does not exist was answered.
C9_Witness ==
  \E r \in Reqs :
    /\ body[r].action = "persistEntry" /\ body[r].branch = "ghost"
    /\ pc[r] = "done" /\ thrown[r] = NoError /\ KindsOf(r) = {"branchLocal"}

\* A call of request r failed.
Failed(r) == thrown[r] # NoError \/ KindsOf(r) \cap {"restoreFailed", "renameFailed"} # {}

\* C10: every failure of a git or filesystem call, and the lock timeout, is
\* answered with status 500 and the body "Unknown error".
C10_FailuresAnswered500 ==
  \A r \in Reqs :
    (pc[r] = "done" /\ detached[r] = {} /\ Failed(r)) =>
      resp[r] = <<[status |-> 500, error |-> UnknownErrorMsg]>>

\* Data file i of request r has had its move started.
MoveStarted(r, i) ==
  \/ i \in detached[r]
  \/ \E e \in EventsOf(r) : e.kind \in {"rename", "renameFailed"} /\ e.file = i

\* C11: in persistEntry, if some data file lacks newPath no data file is
\* moved; if every data file carries newPath, a move is started for every
\* data file once the content writes have returned, and never before.
C11_RenamesAllOrNothing ==
  \A r \in Reqs :
    body[r].action = "persistEntry" =>
      LET files == DOMAIN body[r].newPaths IN
      /\ (\E i \in files : ~body[r].newPaths[i]) => \A i \in 1..MaxFiles : ~MoveStarted(r, i)
      /\ ((\A i \in files : body[r].newPaths[i]) /\ "writeAssets" \in KindsOf(r)) =>
           \A i \in files : MoveStarted(r, i)
      /\ \A i \in 1..MaxFiles :
           MoveStarted(r, i) => i \in files /\ {"write", "writeAssets"} \subseteq KindsOf(r)

\* C11 witness: a persistEntry with two data files that both carry newPath
\* has renamed both.
C11_Witness ==
  \E r \in Reqs :
    /\ body[r].action = "persistEntry" /\ Len(body[r].newPaths) = MaxFiles
    /\ \A i \in 1..MaxFiles : \E e \in EventsOf(r) : e.kind = "rename" /\ e.file = i

\* The actions whose case of the switch commits.
CommitActions == {"persistEntry", "persistMedia"} \cup DeleteActions

\* C12: when a request's commit is issued its writes have returned and no
\* rename of it is still under way or yet to run, and every successful
\* persistEntry, persistMedia, deleteFile and deleteFiles has committed.
C12_CommitCapturesAll ==
  \A r \in Reqs :
    /\ "commit" \in KindsOf(r) =>
         /\ detached[r] = {}
         /\ body[r].action = "persistEntry" => {"write", "writeAssets"} \subseteq KindsOf(r)
    /\ (pc[r] = "done" /\ body[r].action \in CommitActions /\ Len(resp[r]) = 1
          /\ resp[r][1].status = 200) => "commit" \in KindsOf(r)

\* C13: a delete whose unlink fails on a missing file does not fail the
\* request on it: the add and the commit follow, the branch is restored,
\* and unless a git call fails the answer is 200.
C13_MissingFileSwallowed ==
  \A r \in Reqs :
    /\ body[r].action \in DeleteActions => thrown[r] # FsMsg
    /\ "unlinkFailed" \in KindsOf(r) =>
         /\ body[r].action \in DeleteActions
         /\ pc[r] = "done" =>
              /\ KindsOf(r) \cap {"restore", "restoreFailed"} # {}
              /\ thrown[r] = NoError =>
                   /\ {"add", "commit", "restore"} \subseteq KindsOf(r)
                   /\ resp[r] = <<[status |-> 200, error |-> ""]>>

\* C13 witness: a deleteFile of a missing file was committed and answered
\* after a branch switch and back.
C13_Witness ==
  \E r \in Reqs :
    /\ body[r].action = "deleteFile" /\ pc[r] = "done" /\ thrown[r] = NoError
    /\ {"unlinkFailed", "checkout", "commit", "restore"} \subseteq KindsOf(r)

\* C14: getMedia answers 200 with one pair per entry listed under the media
\* folder, in listing order, whose path is the entry's path below the
\* repository root and whose url is that same path.
C14_MediaIdentity ==
  media # NoMedia =>
    LET listed == IF listing.failed THEN <<>> ELSE listing.entries
    IN media = [status |-> 200, error |-> "",
                body |-> [i \in 1..Len(listed) |->
                            [path |-> mediaFolder \o <<listed[i].name>>,
                             url |-> mediaFolder \o <<listed[i].name>>]]]

\* The body with the keys the schema does not name taken out.
Known(b) == [b EXCEPT !.extraParam = FALSE, !.extraTop = FALSE]

\* C15 as stated: for an action with a parameter shape, a params key that
\* is not part of the shape is rejected, while a key the envelope does not
\* name changes nothing.
C15_ParamsClosed ==
  checked # NoBody =>
    /\ (checked.action \in allowedActions \ {"info"} /\ checked.extraParam) => details # <<>>
    /\ details = validate([checked EXCEPT !.extraTop = FALSE], FALSE)

\* C15 amended: keys the schema does not name are accepted in the envelope
\* and in params alike, so a body is judged as if it did not carry them; a
\* body of an allowed action with its required fields passes, and params
\* as a whole is rejected when the action is not an allowed one.
C15_UnknownKeysAccepted ==
  checked # NoBody =>
    /\ details = validate(Known(checked), FALSE)
    /\ (checked \in AllBodies /\ Known(checked) \in PlainBodies
          /\ checked.action \in allowedActions \ {"info"} /\ checked.params
          /\ checked.branch # NoBranch) => details = <<>>
    /\ checked.action \notin allowedActions => details # <<>>

\* C15 witness: a complete getEntry body with a key its shape does not name
\* in params, and one in the envelope, passed validation.
C15_Witness ==
  /\ checked.action = "getEntry" /\ checked.params /\ checked.complete
  /\ checked.extraParam /\ checked.extraTop
  /\ details = <<>>

\* C16: a body that violates constraints of the schema is answered 422 with
\* the messages of all the constraints it violates, and the request makes
\* no call and never enters or waits for the gate.
C16_AllViolationsListed ==
  \A r \in Reqs :
    (pc[r] # "idle" /\ defaultSchema(body[r], TRUE) # <<>>) =>
      /\ pc[r] = "done"
      /\ resp[r] = <<[status |-> 422, error |-> Join(defaultSchema(body[r], TRUE))]>>
      /\ EventsOf(r) = {} /\ ~release[r] /\ r \notin holder
      /\ \A i \in 1..Len(queue) : queue[i] # r

\* C17: every request that has arrived is eventually answered and done,
\* holding the gate no more.
C17_EveryRequestAnswered ==
  \A r \in Reqs : (pc[r] # "idle") ~> (pc[r] = "done" /\ Len(resp[r]) = 1 /\ ~Holds(r))

\* C18: a request that entered runOnBranch leaves it only through the
\* restore checkout to the branch captured at entry, whether the checkout
\* to its branch failed, the operation threw or it succeeded; nothing is
\* answered before the restore has run; a failing restore fails the request
\* with status 500, and the gate is released all the same.
C18_RestoreOnEveryExit ==
  /\ \A r \in Reqs :
       /\ (saved[r] # NoBranch /\ pc[r] = "done") =>
            KindsOf(r) \cap {"restore", "restoreFailed"} # {}
       /\ pc[r] \in {"checkout", "op", "restore"} =>
            resp[r] = <<>> /\ saved[r] # NoBranch /\ Holds(r)
       /\ "restoreFailed" \in KindsOf(r) =>
            /\ pc[r] = "done" /\ ~Holds(r)
            /\ resp[r] = <<[status |-> 500, error |-> UnknownErrorMsg]>>
  /\ \A e \in events : e.kind = "restore" => e.cur = saved[e.req]

\* C18 witness: one request's checkout to its branch failed and the restore
\* ran; another's operation succeeded and its restore failed.
C18_Witness ==
  \E r, q \in Reqs :
    /\ pc[r] = "done" /\ saved[r] # body[r].branch /\ saved[r] # NoBranch
    /\ "checkout" \notin KindsOf(r) /\ "restore" \in KindsOf(r)
    /\ {"commit", "restoreFailed"} \subseteq KindsOf(q)

\* C19: an info request makes no git or filesystem call and starts none,
\* whatever params.branch is, never enters the branch check or runOnBranch,
\* and unless it timed out waiting for the gate it is answered 200.
C19_InfoTouchesNothing ==
  \A r \in Reqs :
    (body[r].action = "info" /\ pc[r] # "idle") =>
      /\ EventsOf(r) = {} /\ detached[r] = {}
      /\ pc[r] \in {"waiting", "locked", "done"}
      /\ saved[r] = NoBranch
      /\ thrown[r] \in {NoError, TimeoutMsg}
      /\ (pc[r] = "done" /\ thrown[r] = NoError) =>
           resp[r] = <<[status |-> 200, error |-> ""]>>

\* C19 witness: info requests were answered 200, one naming a branch that
\* does not exist and one without params.
C19_Witness ==
  \E r, q \in Reqs :
    /\ body[r].action = "info" /\ body[r].branch = "ghost"
    /\ body[q].action = "info" /\ ~body[q].params
    /\ \A x \in {r, q} : pc[x] = "done" /\ resp[x] = <<[status |-> 200, error |-> ""]>>

\* C20: the acquisition timer does not run for a request that holds the
\* gate: such a request is never timed out, it is the holder until its own
\* response, and a request that made any call did not time out.
C20_HolderNotCancelled ==
  \A r \in Reqs :
    /\ InCS(r) => waited[r] = 0 /\ r \notin stale /\ thrown[r] # TimeoutMsg /\ resp[r] = <<>>
    /\ r \in holder => InCS(r)
    /\ EventsOf(r) # {} => thrown[r] # TimeoutMsg

\* C20 witness: a request is in its restore, after a branch switch and its
\* operation, while a request that waited for the gate has timed out.
C20_Witness ==
  \E r, w \in Reqs :
    /\ pc[r] = "restore" /\ {"checkout", "commit"} \subseteq KindsOf(r)
    /\ thrown[w] = TimeoutMsg /\ pc[w] = "done"

\* What readdir returns for a directory of the disk.
Readdir(dir) ==
  IF dir = join(repoPath, listFolder) THEN disk.top
  ELSE IF dir = join(repoPath, listFolder) \o <<"d">> THEN disk.sub
  ELSE [failed |-> TRUE, entries |-> <<>>]

\* The paths of the entries under dir down to depth levels, a directory
\* that cannot be read holding none.
RECURSIVE Under(_, _)
Under(dir, depth) ==
  IF depth <= 0 \/ Readdir(dir).failed THEN {}
  ELSE UNION { {dir \o <<e.name>>}
                 \cup (IF e.isDirectory THEN Under(dir \o <<e.name>>, depth - 1) ELSE {}) :
               e \in {Readdir(dir).entries[i] : i \in 1..Len(Readdir(dir).entries)} }

\* C21: the listing holds the entries found under the folder in every
\* nested directory down to depth levels whose name ends with the
\* extension, and no others.
C21_ListsEveryLevel ==
  query.asked =>
    {repoPath \o fsItems[i].file : i \in 1..Len(fsItems)}
      = {f \in Under(join(repoPath, listFolder), query.depth) :
           endsWith(pathString(f), Chars(query.extension))}

\* move was called and returned without throwing.
Moved == call # NoCall /\ ~after.threw

\* What was beside the file in its directory before the move.
Siblings == Entries(before, dirname(call.from)) \ {call.from}

\* The file is at its new path and no more at the old one.
FileRenamed ==
  /\ call.to \in after.tree.files
  /\ call.from # call.to => call.from \notin after.tree.files

\* Every sibling, with all below it, is where it was.
SiblingsStay ==
  \A p \in (before.files \cup before.dirs) \ {call.from, call.to} :
    /\ p \in before.files <=> p \in after.tree.files
    /\ p \in before.dirs => p \in after.tree.dirs

\* Nothing is left in the source directory and every sibling is at its
\* name in the destination directory.
SiblingsRelocated ==
  /\ Entries(after.tree, dirname(call.from)) = {}
  /\ \A p \in Siblings :
       LET q == replace(p, dirname(call.from), dirname(call.to))
       IN IF p \in before.dirs THEN q \in after.tree.dirs ELSE q \in after.tree.files

\* C22 as stated: after a move the file is renamed; within one directory
\* every sibling stays; between two directories no sibling remains in the
\* source directory, each being at its name in the destination directory.
C22_SiblingsFollow ==
  Moved =>
    /\ FileRenamed
    /\ dirname(call.from) = dirname(call.to) => SiblingsStay
    /\ dirname(call.from) # dirname(call.to) => SiblingsRelocated

\* C22 amended: the same, provided the source directory could be listed
\* after the rename; when it could not, the move returns all the same and
\* every sibling stays.
C22_ListedSiblingsFollow ==
  Moved =>
    /\ FileRenamed
    /\ dirname(call.from) = dirname(call.to) => SiblingsStay
    /\ (dirname(call.from) # dirname(call.to) /\ ~call.unreadable) => SiblingsRelocated
    /\ call.unreadable => SiblingsStay

\* C22 witness: a file was moved to the directory beside its own, and the
\* file and the directory that were beside it followed.
C22_Witness ==
  /\ Moved /\ ~call.unreadable
  /\ call.to = BesideDir \o <<"c.md">>
  /\ {SourceDir \o <<"b.js">>, InsideDir \o <<"b.js">>} \subseteq before.files
  /\ {BesideDir \o <<"c.md">>, BesideDir \o <<"b.js">>, BesideDir \o <<"d", "b.js">>}
       \subseteq after.tree.files

\* C23: whenever no request holds the gate the working tree holds no
\* uncommitted change, and a commit takes no change of a request other than
\* the one that issues it.
C23_NoLeak ==
  /\ holder = {} => dirty = {} /\ staged = {}
  /\ \A e \in events : e.kind = "commit" => e.took \subseteq {e.req}

\* C24: a request never has two responses; it has none while its handler
\* runs or waits, and exactly one once the handler has returned, whichever
\* way it went.
C24_ExactlyOneResponse ==
  \A r \in Reqs :
    /\ Len(resp[r]) <= 1
    /\ pc[r] \notin {"idle", "done"} => resp[r] = <<>>
    /\ pc[r] = "done" => Len(resp[r]) = 1

\* C24 witness: every request has returned, one answered that its branch is
\* missing and one answered after its restore checkout failed.
C24_Witness ==
  \E r, q \in Reqs :
    /\ Finished
    /\ resp[r] = <<[status |-> 422, error |-> BranchMissingMsg]>>
    /\ "restoreFailed" \in KindsOf(q) /\ Len(resp[q]) = 1

\* The actions that only read.
ReadOnlyActions == ReadActions \cup {"info", "getDeployPreview"}

\* C25: a read-only action issues no add and no commit, writes, deletes and
\* renames nothing and starts no move; getDeployPreview makes no call but
\* the branch check, and is answered 200 when its branch exists.
C25_ReadsChangeNothing ==
  \A r \in Reqs :
    /\ body[r].action \in ReadOnlyActions =>
         /\ KindsOf(r) \cap (MutationKinds \cup {"add", "commit", "unlinkFailed"}) = {}
         /\ detached[r] = {}
         /\ \A c \in dirty \cup staged : c.req # r
    /\ body[r].action = "getDeployPreview" =>
         /\ KindsOf(r) \subseteq {"branchLocal"}
         /\ saved[r] = NoBranch
         /\ (pc[r] = "done" /\ thrown[r] = NoError /\ isBranchExists(body[r].branch)) =>
              resp[r] = <<[status |-> 200, error |-> ""]>>

\* C25 witness: a getEntry on another branch read and was answered, and a
\* getDeployPreview was answered, with nothing changed in the working tree.
C25_Witness ==
  \E r, q \in Reqs :
    /\ body[r].action = "getEntry" /\ pc[r] = "done"
    /\ {"checkout", "read", "restore"} \subseteq KindsOf(r)
    /\ body[q].action = "getDeployPreview" /\ pc[q] = "done"
    /\ resp[q] = <<[status |-> 200, error |-> ""]>>
    /\ dirty = {} /\ current = InitBranch

====
